---- MODULE Spec2Model ----
(***************************************************************************)
(* Model of the CI helper scripts                                          *)
(*   shared-scripts/check-build-errors.py      (variant "shared")          *)
(*   xcode-build-app/scripts/check-build-errors.py (variant "xcode")       *)
(*   shared-scripts/show-test-failures.py                                  *)
(* Python strings are sequences of one-character strings; a list of        *)
(* strings is a sequence of such sequences.                                *)
(* Environment assumptions: files in log/ are readable UTF-8 text, the     *)
(* xcrun executable exists, the JSON it prints (when well formed) has the  *)
(* documented shape.                                                       *)
(***************************************************************************)
EXTENDS Integers, Sequences, FiniteSets, TLC

VARIABLES
  variant,       \* which check-build-errors.py is running
  logDirExists,  \* os.path.exists("log")
  listing,       \* os.listdir("log"), in the order the OS returns it
  githubEnv,     \* os.getenv("GITHUB_ENV") is set and non-empty
  envFile,       \* contents of the file GITHUB_ENV names
  envFile0,      \* contents of that file when the process started
  pc,            \* position of the process
  idx,           \* index in listing of the directory entry being processed
  decision,      \* the match that made a handler run
  trace,         \* observable events of the run, in order
  stdout,        \* diagnostics printed
  exitCode,      \* process exit status, -1 while running
  failure,       \* show-test-failures: the failure record being annotated
  printed,       \* show-test-failures: the annotation line printed
  testNode,      \* show-test-failures: the test node tree
  failures       \* show-test-failures: result of extract_failures

vars == <<variant, logDirExists, listing, githubEnv, envFile, envFile0, pc,
          idx, decision, trace, stdout, exitCode, failure, printed, testNode,
          failures>>

buildVars == <<variant, logDirExists, listing, githubEnv, envFile, envFile0,
               idx, decision, trace, stdout, exitCode>>
showVars == <<failure, printed, testNode, failures>>

----------------------------------------------------------------------------
(* Bounds *)

MaxArtifacts == 2

----------------------------------------------------------------------------
(* Signature tables *)

retry_errors ==
  << <<"T", "h", "e", " ", "X", "c", "o", "d", "e", " ", "b", "u", "i", "l", "d", " ", "s", "y", "s", "t", "e", "m", " ", "h", "a", "s", " ", "c", "r", "a", "s", "h", "e", "d">>,
     <<"C", "o", "m", "m", "a", "n", "d", " ", "C", "o", "d", "e", "S", "i", "g", "n", " ", "f", "a", "i", "l", "e", "d", " ", "w", "i", "t", "h", " ", "a", " ", "n", "o", "n", "z", "e", "r", "o", " ", "e", "x", "i", "t", " ", "c", "o", "d", "e">>,
     <<"T", "h", "e", " ", "t", "e", "s", "t", " ", "r", "u", "n", "n", "e", "r", " ", "f", "a", "i", "l", "e", "d", " ", "t", "o", " ", "i", "n", "i", "t", "i", "a", "l", "i", "z", "e", " ", "f", "o", "r", " ", "U", "I", " ", "t", "e", "s", "t", "i", "n", "g">>,
     <<"S", "e", "g", "m", "e", "n", "t", "a", "t", "i", "o", "n", " ", "f", "a", "u", "l", "t">>,
     <<"e", "r", "r", "o", "r", ":", " ", "s", "t", "a", "t">> >>

clear_derived_data_errors ==
  << <<"l", "d", ":", " ", "s", "y", "m", "b", "o", "l", "(", "s", ")", " ", "n", "o", "t", " ", "f", "o", "u", "n", "d">> >>

clear_tuist_cache_errors ==
  << <<"U", "n", "d", "e", "r", "l", "y", "i", "n", "g", " ", "E", "r", "r", "o", "r", ":", " ", "C", "r", "a", "s", "h">>,
     <<"F", "a", "i", "l", "e", "d", " ", "t", "o", " ", "l", "o", "a", "d", " ", "t", "h", "e", " ", "t", "e", "s", "t", " ", "b", "u", "n", "d", "l", "e">> >>

xcode_retry_errors ==
  << <<"T", "h", "e", " ", "X", "c", "o", "d", "e", " ", "b", "u", "i", "l", "d", " ", "s", "y", "s", "t", "e", "m", " ", "h", "a", "s", " ", "c", "r", "a", "s", "h", "e", "d">>,
     <<"C", "o", "m", "m", "a", "n", "d", " ", "C", "o", "d", "e", "S", "i", "g", "n", " ", "f", "a", "i", "l", "e", "d", " ", "w", "i", "t", "h", " ", "a", " ", "n", "o", "n", "z", "e", "r", "o", " ", "e", "x", "i", "t", " ", "c", "o", "d", "e">>,
     <<"T", "h", "e", " ", "t", "e", "s", "t", " ", "r", "u", "n", "n", "e", "r", " ", "f", "a", "i", "l", "e", "d", " ", "t", "o", " ", "i", "n", "i", "t", "i", "a", "l", "i", "z", "e", " ", "f", "o", "r", " ", "U", "I", " ", "t", "e", "s", "t", "i", "n", "g">>,
     <<"S", "e", "g", "m", "e", "n", "t", "a", "t", "i", "o", "n", " ", "f", "a", "u", "l", "t">>,
     <<"e", "r", "r", "o", "r", ":", " ", "s", "t", "a", "t">> >>

xcode_clear_derived_data_errors ==
  << <<"l", "d", ":", " ", "s", "y", "m", "b", "o", "l", "(", "s", ")", " ", "n", "o", "t", " ", "f", "o", "u", "n", "d">> >>

xcode_clear_tuist_cache_errors ==
  << <<"U", "n", "d", "e", "r", "l", "y", "i", "n", "g", " ", "E", "r", "r", "o", "r", ":", " ", "C", "r", "a", "s", "h">> >>

RetryBuildText ==
  <<"R", "E", "T", "R", "Y", "_", "B", "U", "I", "L", "D", "=", "t", "r", "u", "e">>

DotLog == <<".", "l", "o", "g">>
DotXcresult == <<".", "x", "c", "r", "e", "s", "u", "l", "t">>

----------------------------------------------------------------------------
(* Python string primitives *)

StartsWithAt(s, sub, i) ==
  /\ i + Len(sub) - 1 <= Len(s)
  /\ \A j \in 1..Len(sub) : s[i + j - 1] = sub[j]

\* str.find, 1-based, 0 when sub does not occur
RECURSIVE StrFind(_, _, _)
StrFind(s, sub, i) ==
  IF i + Len(sub) - 1 > Len(s) THEN 0
  ELSE IF StartsWithAt(s, sub, i) THEN i
  ELSE StrFind(s, sub, i + 1)

UpperLetters ==
  <<"A", "B", "C", "D", "E", "F", "G", "H", "I", "J", "K", "L", "M", "N", "O",
    "P", "Q", "R", "S", "T", "U", "V", "W", "X", "Y", "Z">>
LowerLetters ==
  <<"a", "b", "c", "d", "e", "f", "g", "h", "i", "j", "k", "l", "m", "n", "o",
    "p", "q", "r", "s", "t", "u", "v", "w", "x", "y", "z">>
ToLower(c) ==
  IF \E i \in 1..26 : UpperLetters[i] = c
  THEN LowerLetters[CHOOSE i \in 1..26 : UpperLetters[i] = c]
  ELSE c
LowerStr(s) == [i \in 1..Len(s) |-> ToLower(s[i])]

\* variant of In that compares without regard to case
In_IgnoreCase(sub, s) == StrFind(LowerStr(s), LowerStr(sub), 1) # 0

\* the operator "sub in s" on strings
In(sub, s) == StrFind(s, sub, 1) # 0

\* s.endswith(suffix)
EndsWith(s, suffix) ==
  /\ Len(suffix) <= Len(s)
  /\ SubSeq(s, Len(s) - Len(suffix) + 1, Len(s)) = suffix

\* iterating a str yields its characters as strings of length one
StrIter(s) == [i \in 1..Len(s) |-> <<s[i]>>]

----------------------------------------------------------------------------
(* Classification *)

NoDecision == [tier |-> "NoAction", sig |-> <<>>, unit |-> 0]

\* "for error in errors: if error in message: handler(error)"; the handler
\* never returns, so only the first error contained in message is handled.
\* 0 when no error of the list is contained.
FirstIn(errors, message) ==
  IF \E i \in 1..Len(errors) : In(errors[i], message)
  THEN CHOOSE i \in 1..Len(errors) :
         /\ In(errors[i], message)
         /\ \A j \in 1..(i - 1) : ~In(errors[j], message)
  ELSE 0

\* variant of ScanMessage that runs the retry loop before the other two
ScanMessage_RetryFirst(message, cdd, tuist, retry, k) ==
  LET c == FirstIn(cdd, message)
      t == FirstIn(tuist, message)
      r == FirstIn(retry, message)
  IN IF r # 0 THEN [tier |-> "RetryOnly", sig |-> retry[r], unit |-> k]
     ELSE IF c # 0 THEN [tier |-> "ClearDerivedData", sig |-> cdd[c], unit |-> k]
     ELSE IF t # 0 THEN [tier |-> "ClearBuildCache", sig |-> tuist[t], unit |-> k]
     ELSE NoDecision

\* the three loops run on one message
ScanMessage(message, cdd, tuist, retry, k) ==
  LET c == FirstIn(cdd, message)
      t == FirstIn(tuist, message)
      r == FirstIn(retry, message)
  IN IF c # 0 THEN [tier |-> "ClearDerivedData", sig |-> cdd[c], unit |-> k]
     ELSE IF t # 0 THEN [tier |-> "ClearBuildCache", sig |-> tuist[t], unit |-> k]
     ELSE IF r # 0 THEN [tier |-> "RetryOnly", sig |-> retry[r], unit |-> k]
     ELSE NoDecision

RECURSIVE process_errors_from(_, _)
process_errors_from(error_messages, k) ==
  IF k > Len(error_messages) THEN NoDecision
  ELSE LET d == ScanMessage(error_messages[k], clear_derived_data_errors,
                            clear_tuist_cache_errors, retry_errors, k)
       IN IF d # NoDecision THEN d
          ELSE process_errors_from(error_messages, k + 1)

\* shared variant: the first handler call process_errors makes, if any
process_errors(error_messages) == process_errors_from(error_messages, 1)

\* xcode variant: the three loops run on the whole file contents
scan_log_file_contents(log_file_contents) ==
  ScanMessage(log_file_contents, xcode_clear_derived_data_errors,
              xcode_clear_tuist_cache_errors, xcode_retry_errors, 1)

----------------------------------------------------------------------------
(* Inputs *)

Cat3(a, b, c) == a \o b \o c

TextClean == <<"o", "k", "\n">>
TextCDD == Cat3(<<"a", "\n">>, clear_derived_data_errors[1], <<"\n">>)
TextRetry == retry_errors[4] \o <<":", " ", "1", "1">>
TextRetryThenCDD == Cat3(retry_errors[5], <<"\n">>, clear_derived_data_errors[1])
TextTuist == clear_tuist_cache_errors[1]
TextBundleLoad == clear_tuist_cache_errors[2] \o <<".">>
TextWrongCase ==
  <<"s", "e", "g", "m", "e", "n", "t", "a", "t", "i", "o", "n", " ", "f", "a", "u", "l", "t">>

LogTexts == {TextClean, TextCDD, TextRetry, TextRetryThenCDD, TextTuist,
             TextBundleLoad, TextWrongCase}
\* the error messages xcresulttool reports for a bundle
MessageLists == {<<>>, <<TextClean>>, <<TextCDD>>, <<TextRetry>>,
                 <<TextRetry, TextCDD>>, <<TextCDD, TextRetry>>,
                 <<TextClean, TextBundleLoad>>, <<TextClean, TextRetry, TextCDD>>}

NameLog == <<"b", "u", "i", "l", "d", ".", "l", "o", "g">>
NameLogTxt == <<"b", "u", "i", "l", "d", ".", "l", "o", "g", ".", "t", "x", "t">>
NameXcresult == <<"T", "e", "s", "t", "s", ".", "x", "c", "r", "e", "s", "u", "l", "t">>
NameOther == <<"n", "o", "t", "e", "s", ".", "t", "x", "t">>

SeqsUpTo(S, n) == UNION {[1..k -> S] : k \in 0..n}

\* a directory entry: its name, its contents when read as text, and for a
\* result bundle what xcresulttool does with it
Artifacts ==
  [name : {NameLog}, text : LogTexts, tool : {"none"}, messages : {<<>>}]
  \cup [name : {NameLogTxt}, text : {TextClean, TextCDD}, tool : {"none"},
        messages : {<<>>}]
  \cup [name : {NameOther}, text : {TextCDD}, tool : {"none"}, messages : {<<>>}]
  \cup [name : {NameXcresult}, text : {<<>>},
        tool : {"nonzero", "badjson", "timeout"}, messages : {<<>>}]
  \cup [name : {NameXcresult}, text : {<<>>}, tool : {"ok"},
        messages : MessageLists]

EnvContents == {<<>>, <<"A", "=", "1", "\n">>, <<"A", "=", "1">>}

NoFailure == [path |-> <<>>, message |-> <<>>, device |-> <<>>]
NoTree == [n |-> 0, parent |-> <<>>, nodeType |-> <<>>]

ShowIdle ==
  /\ failure = NoFailure
  /\ printed = <<>>
  /\ testNode = NoTree
  /\ failures = <<>>

Init ==
  /\ variant \in {"shared", "xcode"}
  /\ logDirExists \in BOOLEAN
  /\ listing \in (IF logDirExists THEN SeqsUpTo(Artifacts, MaxArtifacts) ELSE {<<>>})
  /\ githubEnv \in BOOLEAN
  /\ envFile \in (IF githubEnv THEN EnvContents ELSE {<<>>})
  /\ envFile0 = envFile
  /\ pc = "start"
  /\ idx = 0
  /\ decision = NoDecision
  /\ trace = <<>>
  /\ stdout = <<>>
  /\ exitCode = -1
  /\ ShowIdle

----------------------------------------------------------------------------
(* Actions of check-build-errors *)

Event(e, c, s) == [ev |-> e, cmd |-> c, sig |-> s]

frame == <<variant, logDirExists, listing, githubEnv, envFile0, failure,
           printed, testNode, failures>>

\* shared: "if not os.path.exists('log'): print(...)" and the script ends
\* xcode:  os.listdir("log") raises FileNotFoundError, nothing catches it
ListDir ==
  /\ pc = "start"
  /\ IF logDirExists
     THEN /\ pc' = "loop"
          /\ idx' = 1
          /\ UNCHANGED <<stdout, exitCode>>
     ELSE IF variant = "shared"
     THEN /\ pc' = "done"
          /\ exitCode' = 0
          /\ stdout' = Append(stdout, "Error: 'log' directory not found")
          /\ UNCHANGED idx
     ELSE /\ pc' = "crashed"
          /\ exitCode' = 1
          /\ UNCHANGED <<stdout, idx>>
  /\ UNCHANGED <<envFile, decision, trace>>
  /\ UNCHANGED frame

IsLogFile(name) ==
  IF variant = "shared" THEN EndsWith(name, DotLog) ELSE In(DotLog, name)

IsXcresult(name) ==
  variant = "shared" /\ ~EndsWith(name, DotLog) /\ EndsWith(name, DotXcresult)

\* what scanning the contents of a log file makes of it
LogDecision(contents) ==
  IF variant = "shared" THEN process_errors(StrIter(contents))
  ELSE scan_log_file_contents(contents)

Decide(d) ==
  IF d = NoDecision
  THEN /\ idx' = idx + 1
       /\ UNCHANGED <<pc, decision>>
  ELSE /\ pc' = "handler"
       /\ decision' = d
       /\ UNCHANGED idx

ProcessLogFile ==
  /\ pc = "loop"
  /\ idx <= Len(listing)
  /\ IsLogFile(listing[idx].name)
  /\ Decide(LogDecision(listing[idx].text))
  /\ UNCHANGED <<envFile, trace, stdout, exitCode>>
  /\ UNCHANGED frame

\* get_xcresult_errors followed by process_errors
ProcessXcresult ==
  /\ pc = "loop"
  /\ idx <= Len(listing)
  /\ IsXcresult(listing[idx].name)
  /\ LET a == listing[idx] IN
       CASE a.tool = "ok" ->
              /\ Decide(process_errors(a.messages))
              /\ stdout' = stdout \o [i \in 1..Len(a.messages) |-> "Found test error"]
         [] a.tool \in {"nonzero", "badjson"} ->
              /\ Decide(process_errors(<<>>))
              /\ stdout' = Append(stdout, "Error processing")
         [] a.tool = "timeout" ->
              \* subprocess.run has no timeout: the call never returns
              /\ pc' = "blocked"
              /\ UNCHANGED <<idx, decision, stdout>>
  /\ UNCHANGED <<envFile, trace, exitCode>>
  /\ UNCHANGED frame

SkipFile ==
  /\ pc = "loop"
  /\ idx <= Len(listing)
  /\ ~IsLogFile(listing[idx].name)
  /\ ~IsXcresult(listing[idx].name)
  /\ idx' = idx + 1
  /\ UNCHANGED <<pc, envFile, decision, trace, stdout, exitCode>>
  /\ UNCHANGED frame

\* the loop is exhausted and the script falls off its end
EndOfScript ==
  /\ pc = "loop"
  /\ idx > Len(listing)
  /\ pc' = "done"
  /\ exitCode' = 0
  /\ UNCHANGED <<idx, envFile, decision, trace, stdout>>
  /\ UNCHANGED frame

handle_derived_data_error ==
  /\ pc = "handler"
  /\ decision.tier = "ClearDerivedData"
  /\ trace' = trace
       \o << Event("handle_derived_data_error", "", decision.sig),
             Event("os.system", "clear-xcode-derived-data.sh", <<>>) >>
  /\ stdout' = Append(stdout, "Found derived data error")
  /\ pc' = "set_retry_build"
  /\ UNCHANGED <<idx, envFile, decision, exitCode>>
  /\ UNCHANGED frame

TuistCommands(globalExists, projectExists) ==
  (IF globalExists
   THEN << Event("os.system", "rm -rf ~/.cache/tuist", <<>>) >> ELSE << >>)
  \o (IF variant = "shared" /\ projectExists
      THEN << Event("os.system", "rm -rf Tuist/.build", <<>>) >> ELSE << >>)
  \o (IF variant = "shared"
      THEN << Event("os.system",
                    "tuist install && tuist cache && tuist generate --no-open",
                    <<>>) >>
      ELSE << >>)

handle_tuist_cache_error ==
  /\ pc = "handler"
  /\ decision.tier = "ClearBuildCache"
  /\ \E globalExists \in BOOLEAN, projectExists \in BOOLEAN :
       trace' = trace
                \o << Event("handle_tuist_cache_error", "", decision.sig) >>
                \o TuistCommands(globalExists, projectExists)
  /\ stdout' = Append(stdout, "Found tuist cache error")
  /\ pc' = "set_retry_build"
  /\ UNCHANGED <<idx, envFile, decision, exitCode>>
  /\ UNCHANGED frame

handle_regular_error ==
  /\ pc = "handler"
  /\ decision.tier = "RetryOnly"
  /\ trace' = Append(trace, Event("handle_regular_error", "", decision.sig))
  /\ stdout' = Append(stdout, "Found build error that requires retry")
  /\ pc' = "set_retry_build"
  /\ UNCHANGED <<idx, envFile, decision, exitCode>>
  /\ UNCHANGED frame

\* variant of set_retry_build that returns to the scan instead of exiting
set_retry_build_NoExit ==
  /\ pc = "set_retry_build"
  /\ envFile' = (IF githubEnv THEN envFile \o RetryBuildText ELSE envFile)
  /\ trace' = Append(trace, Event("set_retry_build", "", <<>>))
  /\ pc' = "loop"
  /\ idx' = idx + 1
  /\ UNCHANGED <<decision, stdout, exitCode>>
  /\ UNCHANGED frame

\* open(env_file_path, "a").write("RETRY_BUILD=true"); sys.exit(0)
set_retry_build ==
  /\ pc = "set_retry_build"
  /\ IF githubEnv
     THEN /\ envFile' = envFile \o RetryBuildText
          /\ trace' = trace \o << Event("set_retry_build", "", <<>>),
                                  Event("write", "GITHUB_ENV", RetryBuildText),
                                  Event("sys.exit", "0", <<>>) >>
     ELSE /\ envFile' = envFile
          /\ trace' = trace \o << Event("set_retry_build", "", <<>>),
                                  Event("sys.exit", "0", <<>>) >>
  /\ pc' = "exited"
  /\ exitCode' = 0
  /\ UNCHANGED <<idx, decision, stdout>>
  /\ UNCHANGED frame

Next ==
  \/ ListDir
  \/ ProcessLogFile
  \/ ProcessXcresult
  \/ SkipFile
  \/ EndOfScript
  \/ handle_derived_data_error
  \/ handle_tuist_cache_error
  \/ handle_regular_error
  \/ set_retry_build

Spec == Init /\ [][Next]_vars

TypeOK ==
  /\ pc \in {"start", "loop", "handler", "set_retry_build", "exited", "done",
             "crashed", "blocked"}
  /\ exitCode \in {-1, 0, 1}

----------------------------------------------------------------------------
(* show-test-failures.py: annotations *)

MaxMessageLen == 4

MAX_MESSAGE_LENGTH == 500

Ellipsis == <<".", ".", ".">>

truncate_message(message, max_length) ==
  IF Len(message) <= max_length THEN message
  ELSE SubSeq(message, 1, max_length - 3) \o Ellipsis

\* sep.join(parts)
RECURSIVE StrJoin(_, _)
StrJoin(sep, parts) ==
  IF parts = <<>> THEN <<>>
  ELSE IF Len(parts) = 1 THEN parts[1]
  ELSE parts[1] \o sep \o StrJoin(sep, Tail(parts))

format_test_identifier(path) == StrJoin(<<"/">>, path)

\* s.replace(old, new): occurrences of old, left to right, not overlapping
RECURSIVE StrReplaceFrom(_, _, _, _)
StrReplaceFrom(s, old, new, i) ==
  IF i > Len(s) THEN <<>>
  ELSE IF StartsWithAt(s, old, i)
  THEN new \o StrReplaceFrom(s, old, new, i + Len(old))
  ELSE <<s[i]>> \o StrReplaceFrom(s, old, new, i + 1)
StrReplace(s, old, new) == StrReplaceFrom(s, old, new, 1)

\* variant of EscapeAnnotation that replaces "%" after the line breaks
EscapeAnnotation_PercentLast(annotation_message) ==
  StrReplace(
    StrReplace(
      StrReplace(annotation_message, <<"\r">>, <<"%", "0", "D">>),
      <<"\n">>, <<"%", "0", "A">>),
    <<"%">>, <<"%", "2", "5">>)

\* .replace("%", "%25").replace("\r", "%0D").replace("\n", "%0A")
EscapeAnnotation(annotation_message) ==
  StrReplace(
    StrReplace(
      StrReplace(annotation_message, <<"%">>, <<"%", "2", "5">>),
      <<"\r">>, <<"%", "0", "D">>),
    <<"\n">>, <<"%", "0", "A">>)

AnnotationHeader ==
  <<":", ":", "e", "r", "r", "o", "r", " ", "t", "i", "t", "l", "e", "=">>

AnnotationLine(f) ==
  LET test_id == format_test_identifier(f.path)
      message == truncate_message(f.message, MAX_MESSAGE_LENGTH)
      annotation_message ==
        IF f.device # <<>>
        THEN <<"[">> \o f.device \o <<"]", " ">> \o message
        ELSE message
  IN AnnotationHeader \o test_id \o <<":", ":">>
       \o EscapeAnnotation(annotation_message)

MessageChars == {"%", "\r", "\n", "0", "2", "5", "D"}
AnnotMessages == SeqsUpTo(MessageChars, MaxMessageLen)
AnnotDevices == {<<>>, <<"%", "d">>}
AnnotPaths == { << <<"T">> >>, << <<"T">>, <<"c">> >> }

BuildIdle ==
  /\ variant = "shared"
  /\ logDirExists = FALSE
  /\ listing = <<>>
  /\ githubEnv = FALSE
  /\ envFile = <<>>
  /\ envFile0 = <<>>
  /\ idx = 0
  /\ decision = NoDecision
  /\ trace = <<>>
  /\ stdout = <<>>
  /\ exitCode = -1

InitAnnot ==
  /\ BuildIdle
  /\ pc = "annotate"
  /\ failure \in [path : AnnotPaths, message : AnnotMessages, device : AnnotDevices]
  /\ printed = <<>>
  /\ testNode = NoTree
  /\ failures = <<>>

output_github_annotation ==
  /\ pc = "annotate"
  /\ printed' = AnnotationLine(failure)
  /\ pc' = "annotated"
  /\ UNCHANGED <<failure, testNode, failures>>
  /\ UNCHANGED buildVars

NextAnnot == output_github_annotation

SpecAnnot == InitAnnot /\ [][NextAnnot]_vars

----------------------------------------------------------------------------
(* show-test-failures.py: extract_failures *)

MaxNodes == 4

StructuralTypes == {"Unit test bundle", "UI test bundle", "Test Suite", "Test Case"}

NodeTypes == {"Unit test bundle", "Test Suite", "Test Case", "Device",
              "Test Plan Configuration", "Failure Message"}

\* node.get("name"); nodes of the model carry distinct names and no "details"
NodeName(node) == <<"n", node>>

NoDevice == <<>>

\* node.get("children", []): the children, in their given order
Children(node) ==
  SelectSeq([j \in 1..testNode.n |-> j], LAMBDA j : testNode.parent[j] = node)

RECURSIVE extract_failures_AllTypesInPath(_, _, _, _)
RECURSIVE extract_children_AllTypesInPath(_, _, _, _, _)
\* variant of extract_failures that extends the path with every node's name
extract_failures_AllTypesInPath(node, path, device_name, acc) ==
  LET node_type == testNode.nodeType[node]
      node_name == NodeName(node)
      current_device == IF node_type = "Device" THEN node_name ELSE device_name
      current_path == IF node_type # "Failure Message"
                      THEN path \o <<node_name>> ELSE path
      acc1 == IF node_type = "Failure Message" /\ current_path # <<>>
              THEN Append(acc, [path |-> current_path,
                                message |-> node_name,
                                device |-> current_device])
              ELSE acc
  IN extract_children_AllTypesInPath(Children(node), 1, current_path,
                                     current_device, acc1)
extract_children_AllTypesInPath(children, k, path, device_name, acc) ==
  IF k > Len(children) THEN acc
  ELSE extract_children_AllTypesInPath(children, k + 1, path, device_name,
         extract_failures_AllTypesInPath(children[k], path, device_name, acc))

RECURSIVE extract_failures(_, _, _, _)
RECURSIVE extract_children(_, _, _, _, _)
\* the shared list "failures" is threaded through the calls as acc
extract_failures(node, path, device_name, acc) ==
  LET node_type == testNode.nodeType[node]
      node_name == NodeName(node)
      current_device == IF node_type = "Device" THEN node_name ELSE device_name
      current_path == IF node_type \in StructuralTypes
                      THEN path \o <<node_name>> ELSE path
      acc1 == IF node_type = "Failure Message" /\ current_path # <<>>
              THEN Append(acc, [path |-> current_path,
                                message |-> node_name,
                                device |-> current_device])
              ELSE acc
  IN extract_children(Children(node), 1, current_path, current_device, acc1)
\* "for child in children: extract_failures(child, ...)"
extract_children(children, k, path, device_name, acc) ==
  IF k > Len(children) THEN acc
  ELSE extract_children(children, k + 1, path, device_name,
         extract_failures(children[k], path, device_name, acc))

ParentArrays(n) ==
  {p \in [1..n -> 0..(n - 1)] : p[1] = 0 /\ \A i \in 2..n : 1 <= p[i] /\ p[i] < i}

\* Device > bundle > Test Suite > Test Case > Failure Message
ScenarioTree ==
  [n |-> 5,
   parent |-> <<0, 1, 2, 3, 4>>,
   nodeType |-> <<"Device", "Unit test bundle", "Test Suite", "Test Case",
                  "Failure Message">>]

InitExtract ==
  /\ BuildIdle
  /\ pc = "extract"
  /\ failure = NoFailure
  /\ printed = <<>>
  /\ \/ \E n \in 1..MaxNodes :
          \E p \in ParentArrays(n), ty \in [1..n -> NodeTypes] :
            testNode = [n |-> n, parent |-> p, nodeType |-> ty]
     \/ testNode = ScenarioTree
  /\ failures = <<>>

\* node_failures = extract_failures(test_node)
ExtractFailures ==
  /\ pc = "extract"
  /\ failures' = extract_failures(1, <<>>, NoDevice, <<>>)
  /\ pc' = "extracted"
  /\ UNCHANGED <<failure, printed, testNode>>
  /\ UNCHANGED buildVars

NextExtract == ExtractFailures

SpecExtract == InitExtract /\ [][NextExtract]_vars

----------------------------------------------------------------------------
(* Vocabulary of the properties, defined from the inputs alone *)

Range(f) == {f[i] : i \in DOMAIN f}

\* sig occurs somewhere in text, compared character by character
HasSub(text, sig) ==
  \E i \in 1..(Len(text) - Len(sig) + 1) :
    \A j \in 1..Len(sig) : text[i + j - 1] = sig[j]

HasSuffix(name, suffix) ==
  /\ Len(suffix) <= Len(name)
  /\ \A j \in 1..Len(suffix) : name[Len(name) - Len(suffix) + j] = suffix[j]

CddSigs == IF variant = "shared" THEN Range(clear_derived_data_errors)
           ELSE Range(xcode_clear_derived_data_errors)
CacheSigs == IF variant = "shared" THEN Range(clear_tuist_cache_errors)
             ELSE Range(xcode_clear_tuist_cache_errors)
RetrySigs == IF variant = "shared" THEN Range(retry_errors)
             ELSE Range(xcode_retry_errors)
KnownSigs == CddSigs \cup CacheSigs \cup RetrySigs

TextHas(text, sigs) == \E sig \in sigs : HasSub(text, sig)

\* the strings an artifact consists of: its text, or its error messages
Strings(a) == {a.text} \cup Range(a.messages)
ArtifactHas(a, sigs) == \E t \in Strings(a) : TextHas(t, sigs)

TierOfStrings(S) ==
  IF \E t \in S : TextHas(t, CddSigs) THEN "ClearDerivedData"
  ELSE IF \E t \in S : TextHas(t, CacheSigs) THEN "ClearBuildCache"
  ELSE IF \E t \in S : TextHas(t, RetrySigs) THEN "RetryOnly"
  ELSE "NoAction"

SigsOfTier(tier) ==
  CASE tier = "ClearDerivedData" -> CddSigs
    [] tier = "ClearBuildCache" -> CacheSigs
    [] tier = "RetryOnly" -> RetrySigs
    [] OTHER -> {}

HandlerOfTier(tier) ==
  CASE tier = "ClearDerivedData" -> "handle_derived_data_error"
    [] tier = "ClearBuildCache" -> "handle_tuist_cache_error"
    [] tier = "RetryOnly" -> "handle_regular_error"
    [] OTHER -> "none"

HandlerNames == {"handle_derived_data_error", "handle_tuist_cache_error",
                 "handle_regular_error"}

Positions(e) == {i \in 1..Len(trace) : trace[i].ev = e}
HandlerPositions == {i \in 1..Len(trace) : trace[i].ev \in HandlerNames}

Ended == pc \in {"exited", "done"}

IsLogArtifact(a) == HasSuffix(a.name, DotLog)
IsBundleArtifact(a) == HasSuffix(a.name, DotXcresult)

\* the strings the scan tests one at a time, in scan order: the whole text
\* of a file whose name contains ".log" (xcode), each message of a bundle
\* and each character of a .log file (shared)
UnitsOf(a) ==
  IF variant = "xcode"
  THEN (IF HasSub(a.name, DotLog) THEN <<a.text>> ELSE <<>>)
  ELSE IF IsLogArtifact(a) THEN [i \in 1..Len(a.text) |-> <<a.text[i]>>]
  ELSE IF IsBundleArtifact(a) THEN a.messages
  ELSE <<>>

RECURSIVE UnitsFrom(_)
UnitsFrom(i) ==
  IF i > Len(listing) THEN <<>> ELSE UnitsOf(listing[i]) \o UnitsFrom(i + 1)
AllUnits == UnitsFrom(1)

MatchingUnits == {k \in 1..Len(AllUnits) : TextHas(AllUnits[k], KnownSigs)}
FirstMatchingUnit ==
  AllUnits[CHOOSE k \in MatchingUnits : \A m \in MatchingUnits : k <= m]

SomeCdd == \E i \in 1..Len(listing) : ArtifactHas(listing[i], CddSigs)
SomeRetry == \E i \in 1..Len(listing) : ArtifactHas(listing[i], RetrySigs)

----------------------------------------------------------------------------
(* C1 *)

----------------------------------------------------------------------------
(* C2 *)

ArtifactsWithSig ==
  {i \in 1..Len(listing) :
     /\ IsLogArtifact(listing[i]) \/ IsBundleArtifact(listing[i])
     /\ ArtifactHas(listing[i], KnownSigs)}
FirstArtifactWithSig ==
  listing[CHOOSE i \in ArtifactsWithSig : \A m \in ArtifactsWithSig : i <= m]

\* C2: in the variant that reads both kinds of artifact, the first artifact
\* in input order that contains any signature decides the outcome and is
\* resolved to the highest-priority tier among the signatures it contains,
\* wherever they occur in its text or in its list of messages.
C2_FirstArtifactHighestTier ==
  (Ended /\ variant = "shared" /\ ArtifactsWithSig # {}) =>
     /\ pc = "exited"
     /\ decision.tier = TierOfStrings(Strings(FirstArtifactWithSig))

----------------------------------------------------------------------------
(* C3 *)

\* C3: in each variant, when a .log file contains a known signature and no
\* earlier directory entry contains one, a run that ends has invoked the
\* handler of the (highest) tier found in that file with a signature the file
\* contains, and has executed the retry flag step.
C3_LogSignatureRemediates ==
  \A i \in 1..Len(listing) :
    ( /\ Ended
      /\ IsLogArtifact(listing[i])
      /\ TextHas(listing[i].text, KnownSigs)
      /\ \A j \in 1..(i - 1) : ~ArtifactHas(listing[j], KnownSigs) )
    => /\ pc = "exited"
       /\ decision.tier = TierOfStrings({listing[i].text})
       /\ HasSub(listing[i].text, decision.sig)
       /\ \E h \in HandlerPositions :
            /\ trace[h].ev = HandlerOfTier(decision.tier)
            /\ trace[h].sig = decision.sig
       /\ Positions("set_retry_build") # {}

----------------------------------------------------------------------------
(* C4 *)

NoArtifactHasSig ==
  \A i \in 1..Len(listing) : ~ArtifactHas(listing[i], KnownSigs)

\* C4: when the log directory holds no artifact containing a known
\* signature, no handler runs, the environment file keeps its contents and
\* the process can only end with exit code 0; so RETRY_BUILD=true is written
\* only in runs in which some artifact contains a signature.
C4_NoSignatureNoAction ==
  /\ (logDirExists /\ NoArtifactHasSig) =>
        /\ trace = <<>>
        /\ decision = NoDecision
        /\ envFile = envFile0
        /\ pc \in {"start", "loop", "done", "blocked"}
        /\ exitCode \in {-1, 0}
        /\ (pc = "done" <=> exitCode = 0)
  /\ (envFile # envFile0 \/ Positions("write") # {}) => ~NoArtifactHasSig

C4_Witness ==
  /\ pc = "done"
  /\ exitCode = 0
  /\ NoArtifactHasSig
  /\ \E i \in 1..Len(listing) :
       /\ HasSub(listing[i].name, DotLog)
       /\ listing[i].text = TextWrongCase
  /\ githubEnv
  /\ envFile = envFile0

----------------------------------------------------------------------------
(* C5 *)

C5_TraceShape ==
  /\ Cardinality(HandlerPositions) <= 1
  /\ Cardinality(Positions("set_retry_build")) <= 1
  /\ Cardinality(Positions("write")) <= 1
  /\ Cardinality(Positions("sys.exit")) <= 1
  /\ trace # <<>> =>
       /\ trace[1].ev = HandlerOfTier(decision.tier)
       /\ trace[1].sig = decision.sig
       /\ decision.tier = "ClearDerivedData" =>
            (Len(trace) >= 2 /\ trace[2].cmd = "clear-xcode-derived-data.sh")
  /\ \A s \in Positions("os.system") :
       /\ \A h \in HandlerPositions : h < s
       /\ \A f \in Positions("set_retry_build") : s < f
  /\ \A f \in Positions("set_retry_build") :
       /\ \A h \in HandlerPositions : h < f
       /\ \A w \in Positions("write") : f < w
       /\ \A x \in Positions("sys.exit") : f < x
  /\ \A x \in Positions("sys.exit") :
       /\ x = Len(trace)
       /\ trace[x].cmd = "0"
       /\ \A w \in Positions("write") : w < x
  /\ pc = "exited" <=> Positions("sys.exit") # {}
  /\ pc = "exited" =>
       /\ exitCode = 0
       /\ Positions("set_retry_build") # {}
       /\ HandlerPositions # {}
  /\ pc \in {"handler", "set_retry_build", "exited"} <=> decision # NoDecision

C5_NoScanAfterDecision ==
  /\ decision # NoDecision =>
       /\ idx' = idx
       /\ decision' = decision
       /\ pc' \in {"handler", "set_retry_build", "exited"}
       /\ envFile' # envFile => (pc = "set_retry_build" /\ pc' = "exited")
  /\ pc = "exited" => UNCHANGED vars

\* C5: in a run that reaches a Remediate decision the handler of the matched
\* tier runs its remediation commands, then the retry flag step runs, then
\* the process exits with code 0; after the decision nothing more is scanned,
\* and there is at most one handler, one flag write and one exit.
C5_RemediateFlagExit == []C5_TraceShape /\ [][C5_NoScanAfterDecision]_vars

C5_Witness ==
  /\ pc = "exited"
  /\ decision.tier = "ClearBuildCache"
  /\ Len(trace) >= 5
  /\ idx < Len(listing)
  /\ ArtifactHas(listing[Len(listing)], KnownSigs)

----------------------------------------------------------------------------
(* C6 *)

\* C6: when materializing a result bundle fails (non-zero exit, malformed
\* JSON or timeout) the bundle contributes no signature and the scan goes on
\* with the next directory entry.
C6_FailedBundleStep ==
  ( /\ pc = "loop"
    /\ idx <= Len(listing)
    /\ variant = "shared"
    /\ IsBundleArtifact(listing[idx])
    /\ listing[idx].tool \in {"nonzero", "badjson", "timeout"} )
  => /\ pc' = "loop"
     /\ idx' = idx + 1
     /\ trace' = trace
     /\ envFile' = envFile

C6_FailedBundleSkipped == [][C6_FailedBundleStep]_vars

----------------------------------------------------------------------------
(* C7 *)

\* C7: in every variant, when the log directory is absent the run prints a
\* diagnostic, runs no handler, writes no flag and ends without an uncaught
\* exception.
C7_AbsentLogDir ==
  (~logDirExists /\ pc # "start") =>
     /\ pc = "done"
     /\ exitCode = 0
     /\ stdout # <<>>
     /\ trace = <<>>
     /\ envFile = envFile0

----------------------------------------------------------------------------
(* C8 *)

\* s.split("\n")
RECURSIVE SplitLines(_, _, _)
SplitLines(s, i, cur) ==
  IF i > Len(s) THEN <<cur>>
  ELSE IF s[i] = "\n" THEN <<cur>> \o SplitLines(s, i + 1, <<>>)
  ELSE SplitLines(s, i + 1, Append(cur, s[i]))
Lines(s) == Range(SplitLines(s, 1, <<>>))

\* C8: once the retry is decided and the process has exited, with a
\* configured environment file the old contents are a prefix of the new
\* contents and RETRY_BUILD=true is a line of its own; with no configured
\* file nothing is written; the exit code is 0.
C8_FlagLine ==
  pc = "exited" =>
     /\ exitCode = 0
     /\ IF githubEnv
        THEN /\ Len(envFile) >= Len(envFile0)
             /\ SubSeq(envFile, 1, Len(envFile0)) = envFile0
             /\ RetryBuildText \in Lines(envFile)
        ELSE envFile = envFile0 /\ Positions("write") = {}

----------------------------------------------------------------------------
(* C9 *)

EscapeChar(c) ==
  CASE c = "%" -> <<"%", "2", "5">>
    [] c = "\r" -> <<"%", "0", "D">>
    [] c = "\n" -> <<"%", "0", "A">>
    [] OTHER -> <<c>>

RECURSIVE SinglePass(_)
SinglePass(m) == IF m = <<>> THEN <<>> ELSE EscapeChar(Head(m)) \o SinglePass(Tail(m))

RECURSIVE DecodeFrom(_, _)
DecodeFrom(e, i) ==
  IF i > Len(e) THEN <<>>
  ELSE IF e[i] = "%" /\ i + 2 <= Len(e) /\ e[i + 1] = "2" /\ e[i + 2] = "5"
  THEN <<"%">> \o DecodeFrom(e, i + 3)
  ELSE IF e[i] = "%" /\ i + 2 <= Len(e) /\ e[i + 1] = "0" /\ e[i + 2] = "D"
  THEN <<"\r">> \o DecodeFrom(e, i + 3)
  ELSE IF e[i] = "%" /\ i + 2 <= Len(e) /\ e[i + 1] = "0" /\ e[i + 2] = "A"
  THEN <<"\n">> \o DecodeFrom(e, i + 3)
  ELSE <<e[i]>> \o DecodeFrom(e, i + 1)

\* the message the annotation carries before escaping
AnnotationMessage ==
  IF failure.device # <<>>
  THEN <<"[">> \o failure.device \o <<"]", " ">> \o failure.message
  ELSE failure.message

\* the part of the printed line after "::error title=<title>::"
PrintedBody ==
  SubSeq(printed,
         Len(AnnotationHeader) + Len(StrJoin(<<"/">>, failure.path)) + 3,
         Len(printed))

SpecialCount(m) == Cardinality({i \in 1..Len(m) : m[i] \in {"%", "\r", "\n"}})

\* C9: the escaped annotation message equals the single-pass substitution
\* % -> %25, CR -> %0D, LF -> %0A; it grows by exactly two characters per
\* escaped character (nothing is escaped twice), holds no raw CR or LF, and
\* decodes back to the message.
C9_EscapeSinglePass ==
  pc = "annotated" =>
     /\ printed = AnnotationHeader \o StrJoin(<<"/">>, failure.path)
                    \o <<":", ":">> \o SinglePass(AnnotationMessage)
     /\ Len(PrintedBody) = Len(AnnotationMessage) + 2 * SpecialCount(AnnotationMessage)
     /\ \A i \in 1..Len(PrintedBody) : PrintedBody[i] \notin {"\r", "\n"}
     /\ DecodeFrom(PrintedBody, 1) = AnnotationMessage

C9_Witness ==
  /\ pc = "annotated"
  /\ failure.device # <<>>
  /\ failure.message = <<"\r", "%", "\n", "0">>

----------------------------------------------------------------------------
(* C10 *)

\* proper ancestors of a node, outermost first
RECURSIVE AncestorsOf(_)
AncestorsOf(i) ==
  IF testNode.parent[i] = 0 THEN <<>>
  ELSE Append(AncestorsOf(testNode.parent[i]), testNode.parent[i])

IsStructural(j) ==
  testNode.nodeType[j] \in {"Unit test bundle", "UI test bundle", "Test Suite", "Test Case"}

NamesOf(nodes) == [k \in 1..Len(nodes) |-> <<"n", nodes[k]>>]

PathOf(i) == NamesOf(SelectSeq(AncestorsOf(i), IsStructural))

EnclosingDevices(i) ==
  SelectSeq(AncestorsOf(i), LAMBDA j : testNode.nodeType[j] = "Device")
DeviceOf(i) ==
  IF EnclosingDevices(i) = <<>> THEN <<>>
  ELSE <<"n", EnclosingDevices(i)[Len(EnclosingDevices(i))]>>

RootPath(i) == Append(AncestorsOf(i), i)

\* a comes before b in the pre-order walk that takes children in given order
PreOrderBefore(a, b) ==
  LET ra == RootPath(a)
      rb == RootPath(b)
  IN \/ Len(ra) < Len(rb) /\ SubSeq(rb, 1, Len(ra)) = ra
     \/ \E k \in 1..Len(ra) :
          /\ k <= Len(rb)
          /\ SubSeq(ra, 1, k - 1) = SubSeq(rb, 1, k - 1)
          /\ ra[k] < rb[k]

FailureMessageNodes == {i \in 1..testNode.n : testNode.nodeType[i] = "Failure Message"}
ReportedNodes == {i \in FailureMessageNodes : PathOf(i) # <<>>}

\* failures lists exactly the nodes of S, once each, in pre-order, each with
\* its path and device
ListsExactly(S) ==
  /\ Len(failures) = Cardinality(S)
  /\ \A i \in S : \E k \in 1..Len(failures) :
       failures[k] = [path |-> PathOf(i), message |-> <<"n", i>>, device |-> DeviceOf(i)]
  /\ \A k \in 1..Len(failures) : \A l \in (k + 1)..Len(failures) :
       \E a \in S, b \in S :
         /\ failures[k].message = <<"n", a>>
         /\ failures[l].message = <<"n", b>>
         /\ PreOrderBefore(a, b)

\* C10 as stated: one record per Failure Message node of the tree.
C10_OnePerFailureMessage == pc = "extracted" => ListsExactly(FailureMessageNodes)

\* C10 amended: one record per Failure Message node that has at least one
\* enclosing bundle, Test Suite or Test Case node, in pre-order, with the
\* names of those enclosing nodes as path (outermost first) and the name of
\* the closest enclosing Device node (none if there is none) as device.
C10_OnePerReportedFailureMessage == pc = "extracted" => ListsExactly(ReportedNodes)

C10_Witness ==
  /\ pc = "extracted"
  /\ testNode.n = 5
  /\ testNode.nodeType[1] = "Device"
  /\ testNode.nodeType[5] = "Failure Message"
  /\ failures = << [path |-> << <<"n", 2>>, <<"n", 3>>, <<"n", 4>> >>,
                    message |-> <<"n", 5>>,
                    device |-> <<"n", 1>>] >>
====
